---- MODULE Spec2Model ----
(***************************************************************************)
(* Model of the shelter matching backend (shelter_matching_backend.py):    *)
(* the field coercion helpers, the two normalizers, the rule engine        *)
(* is_exact_match, its explain twin debug_exact_match, the match builder   *)
(* build_matches and print_debug_no_matches; of the bed lookup of          *)
(* smartsheet_client.py; and of lambda_handler (app.py, send_email.py).    *)
(*                                                                         *)
(* Python values are records [t, n, s]: t is the Python type, n the number *)
(* of an int or bool, s the characters of a str.  A str is a sequence of   *)
(* one-character strings, so that strip, lower, split and the substring    *)
(* test are computed, not assumed.  A dict is a function whose DOMAIN is   *)
(* the set of keys present.                                                *)
(***************************************************************************)
EXTENDS Integers, Sequences, FiniteSets, TLC

(* ---------- Python values ---------- *)

PyNone == [t |-> "none", n |-> 0, s |-> <<>>]

PyNaN == [t |-> "nan", n |-> 0, s |-> <<>>]

PyInt(i) == [t |-> "int", n |-> i, s |-> <<>>]

PyBool(b) == [t |-> "bool", n |-> IF b THEN 1 ELSE 0, s |-> <<>>]

PyStr(chars) == [t |-> "str", n |-> 0, s |-> chars]

\* a finite float, as its number of tenths (PyFloat(50) is 5.0)
PyFloat(tenths) == [t |-> "float", n |-> tenths, s |-> <<>>]

\* float("inf") and float("-inf"), by sign
PyInf(sign) == [t |-> "inf", n |-> sign, s |-> <<>>]

\* a datetime.date, as the number yyyymmdd
PyDate(d) == [t |-> "date", n |-> d, s |-> <<>>]

\* an exception raised instead of a value
PyRaise(exc) == [t |-> "raise", n |-> 0, s |-> <<exc>>]

\* dict.get(key) / dict.get(key, default)
Get(d, key) == IF key \in DOMAIN d THEN d[key] ELSE PyNone

GetOr(d, key, default) == IF key \in DOMAIN d THEN d[key] ELSE default

\* Python truthiness of a value (bool(val))
Truthy(v) ==
    CASE v.t = "none" -> FALSE
      [] v.t = "bool" -> v.n = 1
      [] v.t = "int" -> v.n # 0
      [] v.t = "float" -> v.n # 0
      [] v.t = "str" -> v.s # <<>>
      [] OTHER -> TRUE

\* a == b for the values that meet in the matcher (a str never equals a number)
PyEq(a, b) ==
    CASE a.t = "str" /\ b.t = "str" -> a.s = b.s
      [] a.t \in {"int", "bool"} /\ b.t \in {"int", "bool"} -> a.n = b.n
      [] a.t = "none" /\ b.t = "none" -> TRUE
      [] OTHER -> FALSE

(* ---------- str operations ---------- *)

UpperChars == <<"A","B","C","D","E","F","G","H","I","J","K","L","M",
                "N","O","P","Q","R","S","T","U","V","W","X","Y","Z">>

LowerChars == <<"a","b","c","d","e","f","g","h","i","j","k","l","m",
                "n","o","p","q","r","s","t","u","v","w","x","y","z">>

DigitChars == <<"0","1","2","3","4","5","6","7","8","9">>

IsSpace(c) == c \in {" ", "\t", "\n"}

IsDigit(c) == \E i \in 1..10 : DigitChars[i] = c

DigitVal(c) == (CHOOSE i \in 1..10 : DigitChars[i] = c) - 1

LowerChar(c) ==
    IF \E i \in 1..26 : UpperChars[i] = c
    THEN LowerChars[CHOOSE i \in 1..26 : UpperChars[i] = c]
    ELSE c

\* str.lower()
Lower(s) == [i \in 1..Len(s) |-> LowerChar(s[i])]

SetMin(S) == CHOOSE x \in S : \A y \in S : x <= y

SetMax(S) == CHOOSE x \in S : \A y \in S : x >= y

\* str.strip()
Strip(s) ==
    LET keep == {i \in 1..Len(s) : ~IsSpace(s[i])}
    IN IF keep = {} THEN <<>> ELSE SubSeq(s, SetMin(keep), SetMax(keep))

\* sub in s  (substring test on str)
Contains(sub, s) ==
    \E i \in 0..(Len(s) - Len(sub)) : SubSeq(s, i + 1, i + Len(sub)) = sub

\* s.split(",")
SplitComma(s) ==
    LET commas == {i \in 1..Len(s) : s[i] = ","}
        nth(k) == IF k = 0 THEN 0
                  ELSE IF k = Cardinality(commas) + 1 THEN Len(s) + 1
                  ELSE CHOOSE i \in commas : Cardinality({j \in commas : j < i}) = k - 1
    IN [k \in 1..(Cardinality(commas) + 1) |-> SubSeq(s, nth(k - 1) + 1, nth(k) - 1)]

\* x in list  (list membership, by ==)
InList(x, list) == \E i \in 1..Len(list) : list[i] = x

\* decimal digits of a non-negative int
RECURSIVE NatStr(_)
NatStr(i) == IF i < 10 THEN <<DigitChars[i + 1]>>
             ELSE NatStr(i \div 10) \o <<DigitChars[(i % 10) + 1]>>

Abs(i) == IF i < 0 THEN -i ELSE i

\* int(val) on a finite float: truncation toward zero
Trunc(tenths) == IF tenths < 0 THEN -(Abs(tenths) \div 10) ELSE tenths \div 10

\* str(val)
Str(v) ==
    CASE v.t = "str" -> v.s
      [] v.t = "none" -> <<"N","o","n","e">>
      [] v.t = "nan" -> <<"n","a","n">>
      [] v.t = "bool" -> IF v.n = 1 THEN <<"T","r","u","e">> ELSE <<"F","a","l","s","e">>
      [] v.t = "int" -> IF v.n < 0 THEN <<"-">> \o NatStr(-v.n) ELSE NatStr(v.n)
      [] v.t = "float" -> (IF v.n < 0 THEN <<"-">> ELSE <<>>) \o NatStr(Abs(v.n) \div 10)
                          \o <<".">> \o NatStr(Abs(v.n) % 10)
      [] v.t = "inf" -> IF v.n < 0 THEN <<"-","i","n","f">> ELSE <<"i","n","f">>

\* value of a sequence of digits
RECURSIVE DigitsVal(_)
DigitsVal(ds) == IF ds = <<>> THEN 0
                 ELSE 10 * DigitsVal(SubSeq(ds, 1, Len(ds) - 1)) + DigitVal(ds[Len(ds)])

AllDigits(ds) == ds # <<>> /\ \A i \in 1..Len(ds) : IsDigit(ds[i])

\* int(s) on a stripped str: an optional sign and digits; PyNone stands for ValueError
ParseInt(s) ==
    LET signed == s # <<>> /\ s[1] \in {"-", "+"}
        body == IF signed THEN Tail(s) ELSE s
    IN IF AllDigits(body)
       THEN PyInt(IF signed /\ s[1] = "-" THEN -DigitsVal(body) ELSE DigitsVal(body))
       ELSE PyNone

\* int(float(s)) on a stripped str: digits, a point, digits, truncated;
\* "inf"/"infinity" parse as a float that int() refuses with OverflowError,
\* "nan" parses as a float that int() refuses with ValueError
ParseFloatToInt(s) ==
    LET signed == s # <<>> /\ s[1] \in {"-", "+"}
        neg == signed /\ s[1] = "-"
        body == IF signed THEN Tail(s) ELSE s
        dots == {i \in 1..Len(body) : body[i] = "."}
        dot == IF dots = {} THEN Len(body) + 1 ELSE SetMin(dots)
        whole == SubSeq(body, 1, dot - 1)
        frac == SubSeq(body, dot + 1, Len(body))
        wellFormed == /\ Cardinality(dots) <= 1
                      /\ whole \o frac # <<>>
                      /\ \A i \in 1..Len(whole) : IsDigit(whole[i])
                      /\ \A i \in 1..Len(frac) : IsDigit(frac[i])
    IN IF Lower(body) \in {<<"i","n","f">>, <<"i","n","f","i","n","i","t","y">>}
       THEN PyRaise("OverflowError")
       ELSE IF wellFormed
       THEN PyInt(IF neg THEN -DigitsVal(whole) ELSE DigitsVal(whole))
       ELSE PyNone

(* ---------- Helper conversions ---------- *)

TrueWords == {<<"t","r","u","e">>, <<"y","e","s">>, <<"y">>, <<"1">>}

_to_bool(val) ==
    IF val.t = "bool" THEN val.n = 1
    ELSE IF val.t = "none" THEN FALSE
    ELSE Lower(Strip(Str(val))) \in TrueWords

_to_int_or_none(val) ==
    IF val.t = "none" THEN PyNone
    ELSE IF val.t = "nan" THEN PyNone
    ELSE IF val.t = "inf" THEN PyRaise("OverflowError")
    ELSE IF val.t = "float" THEN PyInt(Trunc(val.n))
    ELSE IF val.t \in {"int", "bool"} THEN PyInt(val.n)
    ELSE LET s == Strip(Str(val))
         IN IF s = <<>> THEN PyNone
            ELSE IF ParseInt(s) # PyNone THEN ParseInt(s)
            ELSE ParseFloatToInt(s)

NanNone == {<<"n","a","n">>, <<"n","o","n","e">>}

_split_tags(val) ==
    IF val.t = "none" THEN <<>>
    ELSE IF val.t = "nan" THEN <<>>
    ELSE LET s == Lower(Strip(Str(val)))
         IN IF s = <<>> THEN <<>>
            ELSE IF s \in NanNone THEN <<>>
            ELSE LET pieces == SplitComma(s)
                     stripped == [k \in 1..Len(pieces) |-> Strip(pieces[k])]
                 IN SelectSeq(stripped, LAMBDA p : p # <<>>)

(* ---------- str literals of the matcher ---------- *)

K_no_pets_allowed == <<"n","o","_","p","e","t","s","_","a","l","l","o","w","e","d">>

K_safe_park == <<"s","a","f","e","_","p","a","r","k">>

K_safe_parking == <<"s","a","f","e"," ","p","a","r","k","i","n","g">>

K_vehicle_registration == <<"v","e","h","i","c","l","e","_","r","e","g","i","s","t","r","a","t","i","o","n">>

K_no_preference == <<"n","o"," ","p","r","e","f","e","r","e","n","c","e">>

K_all == <<"a","l","l">>

K_families == <<"f","a","m","i","l","i","e","s">>

K_single_moms == <<"s","i","n","g","l","e","_","m","o","m","s">>

K_single_parents == <<"s","i","n","g","l","e","_","p","a","r","e","n","t","s">>

K_tay_teen == <<"t","a","y","_","t","e","e","n">>

K_seniors == <<"s","e","n","i","o","r","s">>

K_single_men == <<"s","i","n","g","l","e","_","m","e","n">>

K_single_women == <<"s","i","n","g","l","e","_","w","o","m","e","n">>

K_male == <<"m","a","l","e">>

K_man == <<"m","a","n">>

K_boy == <<"b","o","y">>

K_female == <<"f","e","m","a","l","e">>

K_woman == <<"w","o","m","a","n">>

K_girl == <<"g","i","r","l">>

K_UNKNOWN_UID == <<"U","N","K","N","O","W","N","_","U","I","D">>

(* ---------- Normalization: Referrals ---------- *)

K_spa == <<"s","p","a">>

\* re.search(r"spa\s*(\d+)", str(loc), flags=re.IGNORECASE), the group as an int
_extract_spa_from_location(loc) ==
    IF loc.t = "none" THEN PyNone
    ELSE LET s == Str(loc)
             \* first position from i on that holds no white space
             past(i) == SetMin({j \in i..(Len(s) + 1) : j = Len(s) + 1 \/ ~IsSpace(s[j])})
             starts == {i \in 1..(Len(s) - 3) :
                           /\ Lower(SubSeq(s, i, i + 2)) = K_spa
                           /\ past(i + 3) <= Len(s)
                           /\ IsDigit(s[past(i + 3)])}
         IN IF starts = {} THEN PyNone
            ELSE LET d == past(SetMin(starts) + 3)
                     end == SetMax({j \in d..Len(s) : \A k \in d..j : IsDigit(s[k])})
                 IN PyInt(DigitsVal(SubSeq(s, d, end)))

\* _has_any_animal on one row of the referral sheet
_has_any_animal(raw) ==
    \E col \in {"animals", "service_animal", "emotional_supportemotional_support_animal",
                "pet"} :
        col \in DOMAIN raw /\ _to_bool(raw[col])

\* the row normalize_referrals_df makes of one row of the referral sheet
NormalizedReferralRow(raw) ==
    [ref_row_id |-> Get(raw, "uid"),
     ref_first_name |-> Get(raw, "first_name"),
     ref_last_name |-> Get(raw, "last_name"),
     ref_age |-> Get(raw, "age"),
     ref_gender_identity |-> Get(raw, "gender_identity"),
     ref_gender_bed_pref |-> Get(raw, "gender_bed_preference"),
     ref_current_location |-> Get(raw, "current_stay"),
     ref_spa |-> _extract_spa_from_location(Get(raw, "current_stay")),
     ref_preferred_spa |-> Get(raw, "preferred_spa"),
     ref_preferred_city |-> Get(raw, "preferred_city_name"),
     ref_exclude_spa |-> Get(raw, "exclude_spa"),
     ref_exclude_city_name |-> Get(raw, "exclude_city_name"),
     ref_skid_row |-> Get(raw, "skid_row"),
     ref_vehicle |-> Get(raw, "vehicle"),
     ref_vehicle_info |-> Get(raw, "vehicle_info"),
     ref_health |-> Get(raw, "health_concerns"),
     ref_accessibility |-> Get(raw, "accessibility"),
     ref_room_type |-> Get(raw, "congregate_environment"),
     ref_top_bunk |-> Get(raw, "top_bunk"),
     ref_has_any_animal |-> PyBool(_has_any_animal(raw)),
     ref_presenting_issues |-> Get(raw, "special_situations")]

\* normalize_referrals_df on the rows of a sheet that has rows: the rows of the frame
\* returned, in sheet order
normalize_referrals_df(records) ==
    [k \in 1..Len(records) |-> NormalizedReferralRow(records[k])]

(* ---------- Normalization: Shelter Database ---------- *)

\* the row normalize_shelters_df makes of one row of the shelter sheet; the columns
\* shelter_programs and shelter_demographics are not written
NormalizedShelterRow(raw) ==
    [shelter_uid |-> Get(raw, "shelter_id"),
     shelter_name |-> Get(raw, "shelter_name"),
     shelter_spa |-> _to_int_or_none(Get(raw, "spa")),
     shelter_cities |-> Get(raw, "cities"),
     shelter_age |-> Get(raw, "age_group"),
     shelter_gender |-> Get(raw, "gender"),
     shelter_entry_requirements |-> Get(raw, "entry_requirements"),
     shelter_special_situation_restrictions |-> Get(raw, "special_situation_restrictions"),
     shelter_accessibility |-> Get(raw, "accessibility"),
     shelter_health_services |-> Get(raw, "health_services"),
     shelter_room_style |-> Get(raw, "room_style"),
     shelter_storage |-> Get(raw, "storage"),
     shelter_pets |-> Get(raw, "pets"),
     shelter_meals |-> Get(raw, "meals"),
     shelter_parking |-> Get(raw, "parking"),
     shelter_vehicles |-> Get(raw, "vehicles"),
     shelter_criminal_history |-> Get(raw, "criminal_history"),
     shelter_email |-> Get(raw, "email"),
     shelter_phone |-> Get(raw, "phone")]

\* normalize_shelters_df on the rows of the sheet: the rows of the frame returned, in
\* sheet order, or the exception _to_int_or_none lets escape from the spa column
normalize_shelters_df(records) ==
    LET rows == [k \in 1..Len(records) |-> NormalizedShelterRow(records[k])]
    IN IF \E k \in 1..Len(rows) : rows[k].shelter_spa.t = "raise"
       THEN [kind |-> "raise", rows |-> <<>>]
       ELSE [kind |-> "return", rows |-> rows]

(* ---------- Core match logic ---------- *)

\* (val or "") for a str-or-None field
OrEmpty(v) == IF Truthy(v) THEN v.s ELSE <<>>

\* beds_by_shelter.get(uid, {})
BedInfo(beds_by_shelter, uid) ==
    IF uid.t = "str" /\ uid.s \in DOMAIN beds_by_shelter THEN beds_by_shelter[uid.s] ELSE <<>>

\* bed_info.get("beds_available", 0), None taken as 0
BedsAvailable(bed_info) ==
    LET got == GetOr(bed_info, "beds_available", PyInt(0))
    IN IF got.t = "none" THEN 0 ELSE got.n

\* any("safe_park" in p or "safe parking" in p for p in tags)
AnySafeParking(tags) ==
    \E i \in 1..Len(tags) : Contains(K_safe_park, tags[i]) \/ Contains(K_safe_parking, tags[i])

_serves_families(tags) ==
    \E i \in 1..Len(tags) : tags[i] \in {K_families, K_single_moms, K_single_parents}

\* the gender source: bed preference, or identity when that is blank or "no preference"
GenderSource(ref_row) ==
    LET gender_bed_pref_raw == Lower(Strip(OrEmpty(Get(ref_row, "ref_gender_bed_pref"))))
        gender_identity_raw == Lower(Strip(OrEmpty(Get(ref_row, "ref_gender_identity"))))
    IN IF gender_bed_pref_raw = <<>> \/ Contains(K_no_preference, gender_bed_pref_raw)
       THEN gender_identity_raw ELSE gender_bed_pref_raw

\* empty tag list taken as ["all"]
OrAll(tags) == IF tags = <<>> THEN <<K_all>> ELSE tags

\* BedsFail with the bed test written < 0: a shelter with zero beds passes step 1
BedsFail_zero_passes(shelter_row, beds_by_shelter) ==
    LET uid == Get(shelter_row, "shelter_uid")
    IN IF ~Truthy(uid) THEN TRUE
       ELSE BedsAvailable(BedInfo(beds_by_shelter, uid)) < 0

\* step 1 of is_exact_match
BedsFail(shelter_row, beds_by_shelter) ==
    LET uid == Get(shelter_row, "shelter_uid")
    IN IF ~Truthy(uid) THEN TRUE
       ELSE BedsAvailable(BedInfo(beds_by_shelter, uid)) <= 0

\* step 2 of is_exact_match
SpaFail(ref_row, shelter_row) ==
    LET ref_exclude_spa == _split_tags(Get(ref_row, "ref_exclude_spa"))
        shelter_spa == Get(shelter_row, "shelter_spa")
    IN /\ ref_exclude_spa # <<>>
       /\ \/ shelter_spa.t = "none"
          \/ \E i \in 1..Len(ref_exclude_spa) : PyEq(shelter_spa, PyStr(ref_exclude_spa[i]))

\* PetsFail without the no_pets_allowed test
PetsFail_any_tag(ref_row, shelter_row) ==
    LET has_animal == _to_bool(Get(ref_row, "ref_has_any_animal"))
        shelter_pets_tags == _split_tags(Get(shelter_row, "shelter_pets"))
    IN has_animal /\ shelter_pets_tags = <<>>

\* step 3 of is_exact_match
PetsFail(ref_row, shelter_row) ==
    LET has_animal == _to_bool(Get(ref_row, "ref_has_any_animal"))
        shelter_pets_tags == _split_tags(Get(shelter_row, "shelter_pets"))
    IN has_animal /\ (shelter_pets_tags = <<>> \/ InList(K_no_pets_allowed, shelter_pets_tags))

\* VehicleFail with the safe-parking test on exact tags instead of substrings
VehicleFail_exact_tag(ref_row, shelter_row) ==
    LET has_vehicle == _to_bool(Get(ref_row, "ref_vehicle"))
        shelter_programs_tags == _split_tags(Get(shelter_row, "shelter_programs"))
        shelter_entry_reqs_tags == _split_tags(Get(shelter_row, "shelter_entry_requirements"))
        safe == InList(K_safe_park, shelter_programs_tags)
                \/ InList(K_safe_parking, shelter_programs_tags)
    IN IF has_vehicle
       THEN ~(safe \/ InList(K_vehicle_registration, shelter_entry_reqs_tags))
       ELSE safe

\* step 4 of is_exact_match
VehicleFail(ref_row, shelter_row) ==
    LET has_vehicle == _to_bool(Get(ref_row, "ref_vehicle"))
        shelter_programs_tags == _split_tags(Get(shelter_row, "shelter_programs"))
        shelter_entry_reqs_tags == _split_tags(Get(shelter_row, "shelter_entry_requirements"))
        supports_vehicle == \/ AnySafeParking(shelter_programs_tags)
                            \/ InList(K_vehicle_registration, shelter_entry_reqs_tags)
    IN IF has_vehicle THEN ~supports_vehicle ELSE AnySafeParking(shelter_programs_tags)

\* the gender test proper, on the gender source and the two tag lists
GenderMismatch(gender_source, shelter_age, shelter_gender) ==
    LET is_tay_focused == InList(K_tay_teen, shelter_age)
        is_senior_focused == InList(K_seniors, shelter_age)
        is_male_pref == \E kw \in {K_male, K_man, K_boy} : Contains(kw, gender_source)
        is_female_pref == \E kw \in {K_female, K_woman, K_girl} : Contains(kw, gender_source)
    IN /\ gender_source # <<>>
       /\ ~(is_tay_focused \/ is_senior_focused)
       /\ \/ /\ is_male_pref
             /\ ~InList(K_single_men, shelter_gender)
             /\ ~InList(K_all, shelter_gender)
             /\ ~_serves_families(shelter_gender)
          \/ /\ is_female_pref
             /\ ~InList(K_single_women, shelter_gender)
             /\ ~InList(K_single_moms, shelter_gender)
             /\ ~InList(K_all, shelter_gender)
             /\ ~_serves_families(shelter_gender)

\* step 5 of is_exact_match: the age tags are read under the key "age_group"
GenderFail(ref_row, shelter_row) ==
    LET shelter_age == OrAll(_split_tags(Get(shelter_row, "age_group")))
        shelter_gender == OrAll(_split_tags(Get(shelter_row, "shelter_gender")))
    IN GenderMismatch(GenderSource(ref_row), shelter_age, shelter_gender)

\* the age test proper, on the coerced age and the age tag list
AgeMismatch(age, shelter_age) ==
    /\ age.t = "int"
    /\ \/ shelter_age = <<K_seniors>> /\ age.n < 55
       \/ shelter_age = <<K_tay_teen>> /\ age.n > 24

\* step 6 of is_exact_match
AgeFail(ref_row, shelter_row) ==
    LET age == _to_int_or_none(Get(ref_row, "ref_age"))
        shelter_age == OrAll(_split_tags(Get(shelter_row, "age_group")))
    IN AgeMismatch(age, shelter_age)

\* a returned verdict: for is_exact_match, ok is the bool returned and reason names
\* the step whose return statement was reached; for debug_exact_match, (ok, reason)
Verdict(ok, reason) == [kind |-> "return", ok |-> ok, reason |-> reason]

\* an exception escaping the function
Raised(exc) == [kind |-> "raise", ok |-> FALSE, reason |-> exc]

is_exact_match(ref_row, shelter_row, beds_by_shelter) ==
    IF BedsFail(shelter_row, beds_by_shelter) THEN Verdict(FALSE, "beds")
    ELSE IF SpaFail(ref_row, shelter_row) THEN Verdict(FALSE, "spa")
    ELSE IF PetsFail(ref_row, shelter_row) THEN Verdict(FALSE, "pets")
    ELSE IF VehicleFail(ref_row, shelter_row) THEN Verdict(FALSE, "vehicle")
    ELSE IF GenderFail(ref_row, shelter_row) THEN Verdict(FALSE, "gender")
    ELSE IF _to_int_or_none(Get(ref_row, "ref_age")).t = "raise"
    THEN Raised("OverflowError")
    ELSE IF AgeFail(ref_row, shelter_row) THEN Verdict(FALSE, "age")
    ELSE Verdict(TRUE, "ok")

(* ---------- Debug version of matcher ---------- *)

\* debug_exact_match: steps 1 to 4 as coded; step 5 reads the locals
\* shelter_age and shelter_gender before any assignment to them
debug_exact_match(ref_row, shelter_row, beds_by_shelter) ==
    LET got_uid == Get(shelter_row, "shelter_uid")
        uid == IF Truthy(got_uid) THEN got_uid ELSE PyStr(K_UNKNOWN_UID)
        beds_available == BedsAvailable(BedInfo(beds_by_shelter, uid))
        ref_exclude_spa == _to_int_or_none(Get(ref_row, "ref_exclude_spa"))
        shelter_spa == _to_int_or_none(Get(shelter_row, "shelter_spa"))
    IN IF beds_available <= 0 THEN Verdict(FALSE, "no beds available")
       ELSE IF ref_exclude_spa.t = "raise" \/ shelter_spa.t = "raise"
       THEN Raised("OverflowError")
       ELSE IF ref_exclude_spa.t = "int" /\ shelter_spa.t = "none"
       THEN Verdict(FALSE, "shelter SPA missing")
       ELSE IF ref_exclude_spa.t = "int" /\ shelter_spa.n = ref_exclude_spa.n
       THEN Verdict(FALSE, "SPA mismatch")
       ELSE IF PetsFail(ref_row, shelter_row)
       THEN Verdict(FALSE, IF _split_tags(Get(shelter_row, "shelter_pets")) = <<>>
                           THEN "client has animal but shelter has no pets field"
                           ELSE "client has animal but shelter has no_pets_allowed")
       ELSE IF VehicleFail(ref_row, shelter_row)
       THEN Verdict(FALSE, IF _to_bool(Get(ref_row, "ref_vehicle"))
                           THEN "client has vehicle but shelter not vehicle-friendly"
                           ELSE "client no vehicle but shelter is safe-parking only")
       ELSE Raised("UnboundLocalError")

(* ---------- Matching orchestration ---------- *)

MATCH_COLUMNS ==
    <<"ref_row_id", "ref_first_name", "ref_last_name", "ref_age",
      "ref_gender_identity", "ref_gender_bed_pref", "ref_spa", "ref_vehicle",
      "ref_has_any_animal", "ref_current_location", "ref_presenting_issues",
      "shelter_uid", "shelter_name", "shelter_spa", "shelter_cities",
      "shelter_pets", "shelter_demographics", "shelter_programs",
      "shelter_entry_requirements", "shelter_email", "shelter_phone",
      "beds_available", "beds_last_updated">>

\* the dict appended to match_rows for one matching pair, by key
MatchDict(ref, shelter, beds_by_shelter) ==
    LET bed_info == BedInfo(beds_by_shelter, Get(shelter, "shelter_uid"))
        refKeys == {"ref_row_id", "ref_first_name", "ref_last_name", "ref_age",
                    "ref_gender_identity", "ref_gender_bed_pref", "ref_spa", "ref_vehicle",
                    "ref_has_any_animal", "ref_current_location", "ref_presenting_issues"}
        shelterKeys == {"shelter_uid", "shelter_name", "shelter_spa", "shelter_cities",
                        "shelter_pets", "shelter_demographics", "shelter_programs",
                        "shelter_entry_requirements", "shelter_email", "shelter_phone"}
    IN [key \in refKeys \cup shelterKeys \cup {"beds_available", "beds_last_updated"} |->
          IF key \in refKeys THEN Get(ref, key)
          ELSE IF key \in shelterKeys THEN Get(shelter, key)
          ELSE IF key = "beds_available" THEN GetOr(bed_info, "beds_available", PyInt(0))
          ELSE Get(bed_info, "date")]

\* characters in code point order
CodePoints == <<" ", ",", "-", "0","1","2","3","4","5","6","7","8","9",
                "A","B","C","D","E","F","G","H","I","J","K","L","M",
                "N","O","P","Q","R","S","T","U","V","W","X","Y","Z", "_",
                "a","b","c","d","e","f","g","h","i","j","k","l","m",
                "n","o","p","q","r","s","t","u","v","w","x","y","z">>

Ord(c) == CHOOSE i \in 1..Len(CodePoints) : CodePoints[i] = c

\* a < b on str
StrLess(a, b) ==
    \E k \in 1..Len(b) :
        /\ k <= Len(a) + 1
        /\ SubSeq(a, 1, k - 1) = SubSeq(b, 1, k - 1)
        /\ k = Len(a) + 1 \/ Ord(a[k]) < Ord(b[k])

\* order of one sort key column, missing values last
KeyLess(a, b) ==
    IF a.t = "none" THEN FALSE
    ELSE IF b.t = "none" THEN TRUE
    ELSE IF a.t = "str" THEN StrLess(a.s, b.s)
    ELSE a.n < b.n

\* order of two rows on ["ref_row_id", "shelter_spa", "shelter_name"]
RowLess(x, y) ==
    LET a == x.cells
        b == y.cells
    IN \/ KeyLess(a["ref_row_id"], b["ref_row_id"])
       \/ /\ a["ref_row_id"] = b["ref_row_id"]
          /\ \/ KeyLess(a["shelter_spa"], b["shelter_spa"])
             \/ /\ a["shelter_spa"] = b["shelter_spa"]
                /\ KeyLess(a["shelter_name"], b["shelter_name"])

\* sort_values by a sort that puts a row before the rows it ties with
RECURSIVE sort_values_unstable(_)
sort_values_unstable(rows) ==
    IF rows = <<>> THEN <<>>
    ELSE LET x == rows[Len(rows)]
             before == sort_values_unstable(SubSeq(rows, 1, Len(rows) - 1))
         IN SelectSeq(before, LAMBDA y : RowLess(y, x)) \o <<x>>
            \o SelectSeq(before, LAMBDA y : ~RowLess(y, x))

\* sort_values(..., kind="mergesort"): a stable sort, computed by insertion
RECURSIVE sort_values(_)
sort_values(rows) ==
    IF rows = <<>> THEN <<>>
    ELSE LET x == rows[Len(rows)]
             before == sort_values(SubSeq(rows, 1, Len(rows) - 1))
         IN SelectSeq(before, LAMBDA y : ~RowLess(x, y)) \o <<x>>
            \o SelectSeq(before, LAMBDA y : RowLess(x, y))

\* PairsInOrder with the inner loop stopping one shelter short
PairsInOrder_short(referrals, shelters) ==
    [k \in 1..(Len(referrals) * Len(shelters) - 1) |->
        <<((k - 1) \div Len(shelters)) + 1, ((k - 1) % Len(shelters)) + 1>>]

\* the (referral, shelter) positions in the order of the two nested loops
PairsInOrder(referrals, shelters) ==
    [k \in 1..(Len(referrals) * Len(shelters)) |->
        <<((k - 1) \div Len(shelters)) + 1, ((k - 1) % Len(shelters)) + 1>>]

\* EmptyMatches built as pd.DataFrame(match_rows): no columns
EmptyMatches_no_columns == [kind |-> "return", columns |-> <<>>, rows |-> <<>>]

\* pd.DataFrame(columns=MATCH_COLUMNS): the frame returned when no pair matched
EmptyMatches == [kind |-> "return", columns |-> MATCH_COLUMNS, rows |-> <<>>]

\* build_matches: a DataFrame [columns, rows]; a row is its index label and its cells
build_matches(referrals, shelters, beds_by_shelter) ==
    LET verdict(pr) == is_exact_match(referrals[pr[1]], shelters[pr[2]], beds_by_shelter)
        pairs == PairsInOrder(referrals, shelters)
        kept == SelectSeq(pairs, LAMBDA pr : verdict(pr).ok)
        match_rows == [k \in 1..Len(kept) |->
                          [index |-> k - 1,
                           cells |-> MatchDict(referrals[kept[k][1]], shelters[kept[k][2]],
                                               beds_by_shelter)]]
    IN IF \E k \in 1..Len(pairs) : verdict(pairs[k]).kind = "raise"
       THEN [kind |-> "raise", columns |-> <<>>, rows |-> <<>>]
       ELSE IF match_rows = <<>>
       THEN EmptyMatches
       ELSE [kind |-> "return", columns |-> MATCH_COLUMNS, rows |-> sort_values(match_rows)]

(* ---------- Debug helper when no matches ---------- *)

\* a line printed by print_debug_no_matches: the banner, the header of a referral, the
\* rule under it, the verdict on one shelter, or the blank line closing a referral
Line(kind, ref_id, uid, name, status, reason) ==
    [kind |-> kind, ref_id |-> ref_id, uid |-> uid, name |-> name, status |-> status,
     reason |-> reason]

\* the outcome of debug_exact_match on every pair the two loops can get to: one
\* sequence over the shelters for each referral
Verdicts(referrals, shelters, beds_by_shelter) ==
    [j \in 1..Len(referrals) |->
        [i \in 1..Len(shelters) |->
            debug_exact_match(referrals[j], shelters[i], beds_by_shelter)]]

\* the lines printed for one referral, up to the first shelter on which
\* debug_exact_match raises; verdict is the outcome of debug_exact_match per shelter
RefLines(ref, shelters, verdict) ==
    LET raising == {i \in 1..Len(shelters) : verdict[i].kind = "raise"}
        stop == IF raising = {} THEN Len(shelters) + 1 ELSE SetMin(raising)
        ref_id == Get(ref, "ref_row_id")
    IN <<Line("header", ref_id, PyNone, PyNone, "", ""),
         Line("rule", PyNone, PyNone, PyNone, "", "")>>
       \o [i \in 1..(stop - 1) |->
              Line("verdict", ref_id, Get(shelters[i], "shelter_uid"),
                   Get(shelters[i], "shelter_name"),
                   IF verdict[i].ok THEN "MATCH" ELSE "NO", verdict[i].reason)]
       \o (IF raising = {} THEN <<Line("blank", PyNone, PyNone, PyNone, "", "")>> ELSE <<>>)

\* the exception debug_exact_match raises on a shelter for the referral, "" if none
RefRaises(verdict) ==
    LET raising == {i \in 1..Len(verdict) : verdict[i].kind = "raise"}
    IN IF raising = {} THEN "" ELSE verdict[SetMin(raising)].reason

\* the lines of the blocks, block after block
RECURSIVE Flatten(_)
Flatten(blocks) ==
    IF blocks = <<>> THEN <<>>
    ELSE Flatten(SubSeq(blocks, 1, Len(blocks) - 1)) \o blocks[Len(blocks)]

\* the two loops of print_debug_no_matches over the outcomes of debug_exact_match:
\* what is printed, and the exception that ends the loops, "" when they run to
\* their end
Printed(referrals, shelters, verdicts) ==
    LET raising == {j \in 1..Len(referrals) : RefRaises(verdicts[j]) # ""}
        last == IF raising = {} THEN Len(referrals) ELSE SetMin(raising)
    IN [stdout |-> <<Line("banner", PyNone, PyNone, PyNone, "", "")>>
                   \o Flatten([j \in 1..last |->
                                  RefLines(referrals[j], shelters, verdicts[j])]),
        exc |-> IF raising = {} THEN "" ELSE RefRaises(verdicts[last])]

\* print_debug_no_matches: what it printed, and the exception that ended it, "" when
\* it ran to its end
print_debug_no_matches(referrals, shelters, beds_by_shelter) ==
    Printed(referrals, shelters, Verdicts(referrals, shelters, beds_by_shelter))

(* ---------- bed availability (smartsheet_client.py) ---------- *)

\* s.replace(a, b) on single characters
Replace(s, a, b) == [i \in 1..Len(s) |-> IF s[i] = a THEN b ELSE s[i]]

\* days of month m of year y
DaysInMonth(y, m) ==
    IF m \in {4, 6, 9, 11} THEN 30
    ELSE IF m = 2 THEN (IF y % 4 = 0 /\ (y % 100 # 0 \/ y % 400 = 0) THEN 29 ELSE 28)
    ELSE 31

\* date.fromisoformat(s) on "YYYY-MM-DD"; PyNone stands for ValueError
fromisoformat(s) ==
    IF /\ Len(s) = 10
       /\ s[5] = "-" /\ s[8] = "-"
       /\ \A i \in {1, 2, 3, 4, 6, 7, 9, 10} : IsDigit(s[i])
    THEN LET y == DigitsVal(SubSeq(s, 1, 4))
             m == DigitsVal(SubSeq(s, 6, 7))
             d == DigitsVal(SubSeq(s, 9, 10))
         IN IF y >= 1 /\ m \in 1..12 /\ d >= 1 /\ d <= DaysInMonth(y, m)
            THEN PyDate(y * 10000 + m * 100 + d)
            ELSE PyNone
    ELSE PyNone

\* int(beds) under except (TypeError, ValueError): an OverflowError escapes
BedsToInt(beds) ==
    CASE beds.t = "none" -> PyInt(0)
      [] beds.t \in {"int", "bool"} -> PyInt(beds.n)
      [] beds.t = "float" -> PyInt(Trunc(beds.n))
      [] beds.t = "inf" -> PyRaise("OverflowError")
      [] beds.t = "str" -> IF ParseInt(Strip(beds.s)) # PyNone
                           THEN ParseInt(Strip(beds.s)) ELSE PyInt(0)
      [] OTHER -> PyInt(0)

normalize_bed_row(row) ==
    LET raw_id == Get(row, "ShelterID")
        date_str == Get(row, "Date")
    IN [shelter_uid |-> IF raw_id.t = "none" THEN PyNone
                        ELSE PyStr(Replace(Str(raw_id), "_", "-")),
        beds_available |-> BedsToInt(Get(row, "BedsAvailable")),
        date_str |-> date_str,
        date |-> IF ~Truthy(date_str) THEN PyNone
                 ELSE IF date_str.t = "str" THEN fromisoformat(date_str.s)
                 ELSE PyRaise("TypeError")]

\* get_bed_availability: the normalized rows, in sheet order
get_bed_availability(rows) == [k \in 1..Len(rows) |-> normalize_bed_row(rows[k])]

\* Newer with the comparison written >=
Newer_or_equal(d, entry) == d.n >= entry.date.n

\* d > latest[uid]["date"]
Newer(d, entry) == d.n > entry.date.n

\* LatestStep without the date comparison: every complete row replaces the entry
LatestStep_overwrite(latest, row) ==
    LET uid == row.shelter_uid
        d == row.date
    IN IF uid.t = "none" \/ d.t = "none" THEN latest
       ELSE [k \in DOMAIN latest \cup {uid.s} |->
                IF k = uid.s THEN [date |-> d, beds_available |-> row.beds_available]
                ELSE latest[k]]

\* one iteration of the loop of get_latest_beds_by_shelter
LatestStep(latest, row) ==
    LET uid == row.shelter_uid
        d == row.date
    IN IF uid.t = "none" \/ d.t = "none" THEN latest
       ELSE IF uid.s \notin DOMAIN latest \/ Newer(d, latest[uid.s])
       THEN [k \in DOMAIN latest \cup {uid.s} |->
                IF k = uid.s THEN [date |-> d, beds_available |-> row.beds_available]
                ELSE latest[k]]
       ELSE latest

\* the dict latest after the loop has gone through the rows
RECURSIVE LatestAfter(_)
LatestAfter(rows) ==
    IF rows = <<>> THEN <<>>
    ELSE LatestStep(LatestAfter(SubSeq(rows, 1, Len(rows) - 1)), rows[Len(rows)])

\* get_latest_beds_by_shelter on the rows of the sheet: the dict returned, or the
\* exception that normalize_bed_row lets escape
get_latest_beds_by_shelter(rows) ==
    LET normalized == get_bed_availability(rows)
    IN IF \E k \in 1..Len(normalized) :
             normalized[k].beds_available.t = "raise" \/ normalized[k].date.t = "raise"
       THEN [kind |-> "raise", value |-> <<>>]
       ELSE [kind |-> "return", value |-> LatestAfter(normalized)]

(* ---------- the Lambda entry point (app.py, send_email.py) ---------- *)

K_smartsheet_hook_challenge ==
    <<"s","m","a","r","t","s","h","e","e","t","-","h","o","o","k","-",
      "c","h","a","l","l","e","n","g","e">>

\* send_email by what ses_client.send_raw_email does: a ClientError is caught and
\* turned into a returned dict, any other exception escapes
send_email(outcome) ==
    CASE outcome = "ok" -> [kind |-> "return", statusCode |-> 200]
      [] outcome = "ClientError" -> [kind |-> "return", statusCode |-> 500]
      [] OTHER -> [kind |-> "raise", statusCode |-> 0]

\* {k.lower(): v for k, v in (event.get("headers") or {}).items()}
LowerKeys(headers) ==
    [k \in {Lower(h) : h \in DOMAIN headers} |->
        headers[CHOOSE h \in DOMAIN headers : Lower(h) = k]]

\* the response of the except branch: 500 and the message of the exception
Failed(message) ==
    [kind |-> "return", statusCode |-> 500, body |-> message, rows |-> 0, hook |-> PyNone]

\* lambda_handler on an event, given what each collaborator does and the sheets the
\* fetches return
lambda_handler(ev, outcomes, referral_sheet, shelter_sheet, bed_sheet) ==
    LET headers == LowerKeys(ev.headers)
        challenge == IF K_smartsheet_hook_challenge \in DOMAIN headers
                     THEN headers[K_smartsheet_hook_challenge] ELSE PyNone
        referrals == normalize_referrals_df(referral_sheet)
        shelters == normalize_shelters_df(shelter_sheet)
        beds == get_latest_beds_by_shelter(bed_sheet)
        matches == build_matches(referrals, shelters.rows, beds.value)
    IN IF Truthy(challenge)
       THEN [kind |-> "return", statusCode |-> 200, body |-> "", rows |-> 0,
             hook |-> challenge]
       ELSE IF outcomes.get_shelter_referrals = "raise"
       THEN Failed("get_shelter_referrals failed")
       ELSE IF outcomes.get_shelter_database = "raise"
       THEN Failed("get_shelter_database failed")
       ELSE IF shelters.kind = "raise" THEN Failed("OverflowError")
       ELSE IF outcomes.get_latest_beds_by_shelter = "raise"
       THEN Failed("get_latest_beds_by_shelter failed")
       ELSE IF beds.kind = "raise" THEN Failed("OverflowError")
       ELSE IF matches.kind = "raise" THEN Failed("OverflowError")
       ELSE IF outcomes.to_excel = "raise" THEN Failed("to_excel failed")
       ELSE IF send_email(outcomes.send_raw_email).kind = "raise"
       THEN Failed("send_raw_email failed")
       ELSE [kind |-> "return", statusCode |-> 200, body |-> "xlsx",
             rows |-> Len(matches.rows), hook |-> PyNone]

(* ---------- input values ---------- *)

V_4 == <<"4">>

V_4_5 == <<"4",","," ","5">>

V_Yes == <<"Y","e","s">>

V_Male == <<"M","a","l","e">>

V_Female == <<"F","e","m","a","l","e">>

V_No_Preference == <<"N","o"," ","P","r","e","f","e","r","e","n","c","e">>

V_Girl == <<"G","i","r","l">>

V_Man == <<"M","a","n">>

V_Woman == <<"W","o","m","a","n">>

V_S1 == <<"S","1">>

V_S2 == <<"S","2">>

V_No == <<"N","o">>

V_Dogs_no_pets == <<"D","o","g","s",","," ","n","o","_","p","e","t","s","_","a","l","l","o","w","e","d">>

V_Dogs == <<"D","o","g","s">>

V_Safe_Parking_Program == <<"S","a","f","e"," ","P","a","r","k","i","n","g"," ","P","r","o","g","r","a","m">>

V_safe_parking_lot == <<"M","e","a","l","s",","," ","s","a","f","e","_","p","a","r","k","i","n","g","_","l","o","t">>

V_adults_seniors == <<"a","d","u","l","t","s",","," ","s","e","n","i","o","r","s">>

V_Alpha == <<"A","l","p","h","a">>

V_Beta == <<"B","e","t","a">>

V_S_2 == <<"S","_","2">>

V_2025_11_18 == <<"2","0","2","5","-","1","1","-","1","8">>

V_2025_11_19 == <<"2","0","2","5","-","1","1","-","1","9">>

V_2025_11_31 == <<"2","0","2","5","-","1","1","-","3","1">>

V_abc == <<"a","b","c">>

V_A == <<"A">>

V_sp_b == <<" ","b">>

V_nan == <<"n","a","n">>

V_sp_None_sp == <<" ","N","o","n","e"," ">>

V_5_0 == <<"5",".","0">>

V_A_b_nan == <<"A",","," ","b",",",",","n","a","n">>

V_inf == <<"i","n","f">>

V_minus_Infinity == <<"-","I","n","f","i","n","i","t","y">>

V_sp_7_sp == <<" ","7"," ">>

V_minus_3 == <<"-","3">>

V_5_7 == <<"5",".","7">>

V_dot == <<".">>

V_blank == <<" "," ">>

V_SPA_4_Skid_Row == <<"S","P","A"," ","4"," ","-"," ","S","k","i","d"," ","R","o","w">>

V_Smartsheet_Hook_Challenge ==
    <<"S","m","a","r","t","s","h","e","e","t","-","H","o","o","k","-",
      "C","h","a","l","l","e","n","g","e">>

V_Content_Type == <<"C","o","n","t","e","n","t","-","T","y","p","e">>

\* largest bed count of a bed record
MaxBeds == 1

\* longest bed availability sheet
MaxBedRows == 3

\* longest referral collection given to build_matches
MaxReferrals == 2

\* longest shelter collection given to build_matches
MaxShelters == 2

\* referral rows that vary the fields read by steps 2 to 4
RefRowsFront ==
    [ref_row_id : {PyInt(1)},
     ref_exclude_spa : {PyNone, PyStr(V_4), PyStr(V_4_5)},
     ref_has_any_animal : {PyBool(FALSE), PyBool(TRUE)},
     ref_vehicle : {PyNone, PyStr(V_Yes), PyStr(V_No)},
     ref_gender_bed_pref : {PyNone},
     ref_gender_identity : {PyNone},
     ref_age : {PyNone, PyInt(40)}]

\* shelter rows that vary the fields read by steps 1 to 4
ShelterRowsFront ==
    [shelter_uid : {PyNone, PyStr(<<>>), PyStr(V_S1)},
     shelter_name : {PyStr(V_Alpha)},
     shelter_spa : {PyNone, PyInt(4), PyInt(5)},
     shelter_pets : {PyNone, PyStr(K_no_pets_allowed), PyStr(V_Dogs), PyStr(V_Dogs_no_pets)},
     shelter_programs : {PyNone, PyStr(V_Safe_Parking_Program), PyStr(V_safe_parking_lot)},
     shelter_entry_requirements : {PyNone, PyStr(K_vehicle_registration)},
     age_group : {PyNone, PyStr(K_seniors)},
     shelter_age : {PyNone},
     shelter_gender : {PyNone}]

\* referral rows that vary the fields read by steps 5 and 6
RefRowsBack ==
    [ref_row_id : {PyInt(1)},
     ref_exclude_spa : {PyNone},
     ref_has_any_animal : {PyBool(FALSE)},
     ref_vehicle : {PyNone},
     ref_gender_bed_pref : {PyNone, PyStr(V_Male), PyStr(V_Female), PyStr(V_No_Preference),
                            PyStr(V_Girl)},
     ref_gender_identity : {PyNone, PyStr(V_Man), PyStr(V_Woman)},
     ref_age : {PyNone, PyInt(24), PyInt(25), PyInt(40), PyInt(54), PyInt(55), PyInt(60)}]

\* shelter rows that vary the fields read by steps 5 and 6, and the normalized
\* column shelter_age beside the key age_group
ShelterRowsBack ==
    [shelter_uid : {PyStr(V_S1)},
     shelter_name : {PyStr(V_Alpha)},
     shelter_spa : {PyInt(4)},
     shelter_pets : {PyNone},
     shelter_programs : {PyNone},
     shelter_entry_requirements : {PyNone},
     age_group : {PyNone, PyStr(K_seniors), PyStr(K_tay_teen), PyStr(V_adults_seniors)},
     shelter_age : {PyNone, PyStr(K_seniors), PyStr(K_tay_teen)},
     shelter_gender : {PyNone, PyStr(K_single_men), PyStr(K_single_women),
                       PyStr(K_single_moms), PyStr(K_families)}]

\* bed_info dicts of one shelter: the key beds_available absent, None, or a count
BedInfos(day) ==
    {[date |-> PyDate(day)], [date |-> PyDate(day), beds_available |-> PyNone]}
    \cup {[date |-> PyDate(day), beds_available |-> PyInt(b)] : b \in -1..MaxBeds}

\* bed lookups with at most the shelter id S1
BedLookups == {<<>>} \cup {[k \in {V_S1} |-> info] : info \in BedInfos(1)}

\* referral rows of the collections given to build_matches: two ids without an
\* animal, one with
RefPool ==
    [ref_row_id : {PyInt(1), PyInt(2)},
     ref_exclude_spa : {PyNone},
     ref_has_any_animal : {PyBool(FALSE)},
     ref_vehicle : {PyNone},
     ref_gender_bed_pref : {PyNone},
     ref_gender_identity : {PyNone},
     ref_age : {PyNone}]
    \cup
    [ref_row_id : {PyInt(2)},
     ref_exclude_spa : {PyNone},
     ref_has_any_animal : {PyBool(TRUE)},
     ref_vehicle : {PyNone},
     ref_gender_bed_pref : {PyNone},
     ref_gender_identity : {PyNone},
     ref_age : {PyNone}]

\* shelter rows of the collections given to build_matches: S1 under every name and
\* SPA, and S2 under one of them
ShelterPool ==
    [shelter_uid : {PyStr(V_S1)},
     shelter_name : {PyStr(V_Alpha), PyStr(V_Beta)},
     shelter_spa : {PyNone, PyInt(4), PyInt(5)},
     shelter_pets : {PyNone},
     shelter_programs : {PyNone},
     shelter_entry_requirements : {PyNone},
     age_group : {PyNone},
     shelter_age : {PyNone},
     shelter_gender : {PyNone}]
    \cup
    [shelter_uid : {PyStr(V_S2)},
     shelter_name : {PyStr(V_Alpha)},
     shelter_spa : {PyInt(4)},
     shelter_pets : {PyNone},
     shelter_programs : {PyNone},
     shelter_entry_requirements : {PyNone},
     age_group : {PyNone},
     shelter_age : {PyNone},
     shelter_gender : {PyNone}]

\* bed lookups given to build_matches: empty, S1 alone, or S1 with a count and S2
BuildBedLookups ==
    {<<>>, [k \in {V_S1} |-> [date |-> PyDate(1), beds_available |-> PyInt(1)]]}
    \cup
    {[k \in {V_S1, V_S2} |->
        [date |-> PyDate(IF k = V_S1 THEN 1 ELSE 2),
         beds_available |-> PyInt(IF k = V_S1 THEN b ELSE 1)]] : b \in 0..MaxBeds}

\* rows of the bed availability sheet: S1 on two dates with every count, S2 and
\* S_2 once, and rows without id, without date, with a date that is no date, and
\* with a count that is no number
BedRowPool ==
    [ShelterID : {PyStr(V_S1)},
     BedsAvailable : {PyInt(b) : b \in 0..MaxBeds},
     Date : {PyStr(V_2025_11_18), PyStr(V_2025_11_19)}]
    \cup
    {[ShelterID |-> PyStr(V_S2), BedsAvailable |-> PyInt(1), Date |-> PyStr(V_2025_11_19)],
     [ShelterID |-> PyStr(V_S_2), BedsAvailable |-> PyStr(V_abc), Date |-> PyStr(V_2025_11_18)],
     [ShelterID |-> PyNone, BedsAvailable |-> PyInt(1), Date |-> PyStr(V_2025_11_19)],
     [ShelterID |-> PyStr(V_S1), BedsAvailable |-> PyInt(1), Date |-> PyNone],
     [ShelterID |-> PyStr(V_S1), BedsAvailable |-> PyNone, Date |-> PyStr(V_2025_11_31)]}

\* most pieces of a comma-separated value
MaxPieces == 3

\* ",".join(pieces)
RECURSIVE JoinComma(_)
JoinComma(pieces) ==
    IF Len(pieces) = 1 THEN pieces[1]
    ELSE JoinComma(SubSeq(pieces, 1, Len(pieces) - 1)) \o <<",">> \o pieces[Len(pieces)]

\* the pieces a comma-separated cell is made of
PiecePool == {V_A, V_sp_b, <<>>, V_nan, V_sp_None_sp, V_5_0}

\* the values a sheet cell given to a coercion helper can hold: missing, numbers, and
\* str cells, comma-separated or not
CellValues ==
    {PyNone, PyNaN, PyInt(5), PyInt(-3), PyBool(TRUE), PyFloat(50), PyFloat(57),
     PyFloat(-57), PyInf(1), PyInf(-1)}
    \cup {PyStr(x) : x \in {V_abc, V_inf, V_minus_Infinity, V_sp_7_sp, V_minus_3, V_5_7,
                            V_dot, V_blank, V_A_b_nan}}
    \cup {PyStr(JoinComma(pieces)) : pieces \in [1..1 -> PiecePool]}
    \cup {PyStr(JoinComma(pieces)) :
             pieces \in UNION {[1..m -> PiecePool] : m \in 2..MaxPieces}}

\* a row of the shelter database sheet, by the columns that reach the matcher
RawShelter(id, name, spa, age_group, gender, pets, programs, reqs) ==
    [shelter_id |-> id, shelter_name |-> name, spa |-> spa, age_group |-> age_group,
     gender |-> gender, pets |-> pets, shelter_programs |-> programs,
     entry_requirements |-> reqs]

\* rows of the shelter database sheet, told apart by id, name and SPA: a plain one, a
\* seniors one, a safe-parking one, a single-women one, one without SPA, and a
\* seniors safe-parking one
RawShelterPool ==
    {RawShelter(PyStr(V_S1), PyStr(V_Alpha), PyFloat(40), PyNone, PyNone, PyNone, PyNone, PyNone),
     RawShelter(PyStr(V_S1), PyStr(V_Beta), PyFloat(40), PyStr(K_seniors), PyNone, PyNone,
                PyNone, PyNone),
     RawShelter(PyStr(V_S1), PyStr(V_Alpha), PyFloat(50), PyNone, PyNone, PyNone,
                PyStr(V_Safe_Parking_Program), PyNone),
     RawShelter(PyStr(V_S1), PyStr(V_Beta), PyStr(V_5_0), PyNone, PyStr(K_single_women),
                PyNone, PyNone, PyNone),
     RawShelter(PyStr(V_S1), PyStr(V_Alpha), PyNone, PyNone, PyNone, PyStr(V_Dogs), PyNone,
                PyStr(K_vehicle_registration)),
     RawShelter(PyStr(V_S2), PyStr(V_Alpha), PyFloat(40), PyStr(K_seniors), PyNone, PyNone,
                PyStr(V_Safe_Parking_Program), PyNone)}

\* normalized referral rows given to build_matches beside the normalized shelters: a
\* referral aged 40 without vehicle, and a man aged 60 with one
PipelineRefPool ==
    {[ref_row_id |-> PyInt(1), ref_exclude_spa |-> PyNone,
      ref_has_any_animal |-> PyBool(FALSE), ref_vehicle |-> PyNone,
      ref_gender_bed_pref |-> PyNone, ref_gender_identity |-> PyNone,
      ref_age |-> PyInt(40)],
     [ref_row_id |-> PyInt(2), ref_exclude_spa |-> PyNone,
      ref_has_any_animal |-> PyBool(FALSE), ref_vehicle |-> PyStr(V_Yes),
      ref_gender_bed_pref |-> PyNone, ref_gender_identity |-> PyStr(V_Man),
      ref_age |-> PyInt(60)]}

\* normalized referral rows given to print_debug_no_matches: those of
\* PipelineRefPool and a man without vehicle
DebugRefPool ==
    PipelineRefPool
    \cup {[ref_row_id |-> PyInt(3), ref_exclude_spa |-> PyNone,
           ref_has_any_animal |-> PyBool(FALSE), ref_vehicle |-> PyNone,
           ref_gender_bed_pref |-> PyNone, ref_gender_identity |-> PyStr(V_Man),
           ref_age |-> PyNone]}

\* normalized shelter rows given to print_debug_no_matches: the sheet rows as
\* normalize_shelters_df returns them
DebugShelterPool == {NormalizedShelterRow(raw) : raw \in RawShelterPool}

\* a bed lookup where S1 and S2 have a bed
BedsForAll ==
    [k \in {V_S1, V_S2} |-> [date |-> PyDate(20251119), beds_available |-> PyInt(1)]]

\* the events given to lambda_handler: without headers, with a challenge header, with
\* an empty challenge header, and with another header
Events ==
    {[headers |-> <<>>],
     [headers |-> [h \in {V_Smartsheet_Hook_Challenge} |-> PyStr(V_abc)]],
     [headers |-> [h \in {K_smartsheet_hook_challenge} |-> PyStr(<<>>)]],
     [headers |-> [h \in {V_Content_Type} |-> PyStr(V_abc)]]}

\* what the collaborators can do: each fetch and the Excel writer return or raise;
\* SES accepts the mail, refuses it with a ClientError, or fails otherwise
IoOutcomes ==
    [get_shelter_referrals : {"ok", "raise"},
     get_shelter_database : {"ok", "raise"},
     get_latest_beds_by_shelter : {"ok", "raise"},
     to_excel : {"ok", "raise"},
     send_raw_email : {"ok", "ClientError", "raise"}]

\* rows of the referral sheet: a man of 40 staying in SPA 4 with a pet, and a row
\* whose age is "inf"
RawReferralA ==
    [uid |-> PyInt(1), first_name |-> PyStr(V_A), age |-> PyFloat(400),
     gender_identity |-> PyStr(V_Man), current_stay |-> PyStr(V_SPA_4_Skid_Row),
     vehicle |-> PyNone, animals |-> PyStr(V_No), pet |-> PyStr(V_Yes)]

RawReferralB ==
    [uid |-> PyInt(2), first_name |-> PyStr(V_A), age |-> PyStr(V_inf),
     gender_identity |-> PyNone, current_stay |-> PyNone,
     vehicle |-> PyNone, animals |-> PyNone, pet |-> PyNone]

\* the sheets the fetches of lambda_handler return
ReferralSheets == {<<RawReferralA>>, <<RawReferralB>>, <<RawReferralA, RawReferralB>>}

ShelterSheets ==
    {<<>>,
     <<RawShelter(PyStr(V_S1), PyStr(V_Alpha), PyNone, PyNone, PyNone, PyStr(V_Dogs), PyNone,
                  PyStr(K_vehicle_registration)),
       RawShelter(PyStr(V_S1), PyStr(V_Beta), PyFloat(40), PyStr(K_seniors), PyNone, PyNone,
                  PyNone, PyNone)>>}

BedSheets ==
    {<<>>,
     <<[ShelterID |-> PyStr(V_S1), BedsAvailable |-> PyInt(1), Date |-> PyStr(V_2025_11_19)]>>}

\* sequences over S of length at most n
SeqsUpTo(S, n) == UNION {[1..m -> S] : m \in 0..n}

(* ---------- state ---------- *)

VARIABLES
    ref_row, shelter_row,      \* the pair given to the rule engine
    beds_by_shelter,           \* the bed lookup
    exact_result,              \* outcome of is_exact_match on the pair
    debug_result,              \* outcome of debug_exact_match on the pair
    referrals_df, shelters_df, \* the collections given to build_matches
    matches_df,                \* outcome of build_matches
    raw_rows,                  \* the rows of the bed availability sheet
    latest_result,             \* outcome of get_latest_beds_by_shelter
    val,                       \* the value given to a coercion helper
    split_tags_result,         \* outcome of _split_tags on val
    to_int_result,             \* outcome of _to_int_or_none on val
    referral_records,          \* the rows of the referral sheet
    shelter_records,           \* the rows of the shelter database sheet
    normalized,                \* outcome of normalize_shelters_df on the shelter sheet
    stdout,                    \* the lines printed by print_debug_no_matches
    print_debug_result,        \* outcome of print_debug_no_matches
    event,                     \* the event given to lambda_handler
    io,                        \* what each I/O collaborator does when called
    response                   \* outcome of lambda_handler

bedVars == <<raw_rows, latest_result>>

coerceVars == <<val, split_tags_result, to_int_result>>

mainVars == <<referral_records, shelter_records, normalized, stdout, print_debug_result>>

handlerVars == <<event, io, response>>

vars == <<ref_row, shelter_row, beds_by_shelter, exact_result, debug_result,
          referrals_df, shelters_df, matches_df, bedVars, coerceVars, mainVars,
          handlerVars>>

NotCalled == [kind |-> "not_called", ok |-> FALSE, reason |-> ""]

NotBuilt == [kind |-> "not_called", columns |-> <<>>, rows |-> <<>>]

\* get_latest_beds_by_shelter not called yet
NoLatest == [kind |-> "not_called", value |-> <<>>]

\* a coercion helper not called yet
NotCoerced == [kind |-> "not_called", value |-> PyNone, list |-> <<>>]

\* print_debug_no_matches not called yet
NotPrinted == [kind |-> "not_called", exc |-> ""]

\* lambda_handler not called yet
NoResponse == [kind |-> "not_called", statusCode |-> 0, body |-> "", rows |-> 0, hook |-> PyNone]

\* every collaborator succeeds
IoAllOk == [get_shelter_referrals |-> "ok", get_shelter_database |-> "ok",
            get_latest_beds_by_shelter |-> "ok", to_excel |-> "ok",
            send_raw_email |-> "ok"]

\* the state of the operations a specification does not exercise
BedsIdle == raw_rows = <<>> /\ latest_result = NoLatest

CoerceIdle == val = PyNone /\ split_tags_result = NotCoerced /\ to_int_result = NotCoerced

MainIdle ==
    /\ referral_records = <<>>
    /\ shelter_records = <<>>
    /\ normalized = "not_called"
    /\ stdout = <<>>
    /\ print_debug_result = NotPrinted

HandlerIdle == event = <<>> /\ io = IoAllOk /\ response = NoResponse

(* ---------- the rule engine on one pair ---------- *)

Init ==
    /\ \/ /\ ref_row \in RefRowsFront
          /\ shelter_row \in ShelterRowsFront
          /\ beds_by_shelter \in BedLookups
       \/ /\ ref_row \in RefRowsBack
          /\ shelter_row \in ShelterRowsBack
          /\ beds_by_shelter \in
                {[k \in {V_S1} |-> [date |-> PyDate(1), beds_available |-> PyInt(b)]] :
                 b \in 0..MaxBeds}
    /\ exact_result = NotCalled
    /\ debug_result = NotCalled
    /\ referrals_df = <<>>
    /\ shelters_df = <<>>
    /\ matches_df = NotBuilt
    /\ BedsIdle /\ CoerceIdle /\ MainIdle /\ HandlerIdle

\* a call of is_exact_match on the pair
CallIsExactMatch ==
    /\ exact_result = NotCalled
    /\ exact_result' = is_exact_match(ref_row, shelter_row, beds_by_shelter)
    /\ UNCHANGED <<ref_row, shelter_row, beds_by_shelter, debug_result,
                   referrals_df, shelters_df, matches_df>>
    /\ UNCHANGED <<bedVars, coerceVars, mainVars, handlerVars>>

\* a call of debug_exact_match on the pair
CallDebugExactMatch ==
    /\ debug_result = NotCalled
    /\ debug_result' = debug_exact_match(ref_row, shelter_row, beds_by_shelter)
    /\ UNCHANGED <<ref_row, shelter_row, beds_by_shelter, exact_result,
                   referrals_df, shelters_df, matches_df>>
    /\ UNCHANGED <<bedVars, coerceVars, mainVars, handlerVars>>

Next == CallIsExactMatch \/ CallDebugExactMatch

Spec == Init /\ [][Next]_vars

(* ---------- the match builder on two collections ---------- *)

InitBuild ==
    /\ referrals_df \in SeqsUpTo(RefPool, MaxReferrals)
    /\ shelters_df \in SeqsUpTo(ShelterPool, MaxShelters)
    /\ beds_by_shelter \in BuildBedLookups
    /\ matches_df = NotBuilt
    /\ ref_row = PyNone
    /\ shelter_row = PyNone
    /\ exact_result = NotCalled
    /\ debug_result = NotCalled
    /\ BedsIdle /\ CoerceIdle /\ MainIdle /\ HandlerIdle

\* a call of build_matches on the collections
CallBuildMatches ==
    /\ matches_df = NotBuilt
    /\ matches_df' = build_matches(referrals_df, shelters_df, beds_by_shelter)
    /\ UNCHANGED <<ref_row, shelter_row, beds_by_shelter, exact_result, debug_result,
                   referrals_df, shelters_df>>
    /\ UNCHANGED <<bedVars, coerceVars, mainVars, handlerVars>>

NextBuild == CallBuildMatches

SpecBuild == InitBuild /\ [][NextBuild]_vars

(* ---------- the bed lookup on a sheet ---------- *)

InitBeds ==
    /\ raw_rows \in SeqsUpTo(BedRowPool, MaxBedRows)
    /\ latest_result = NoLatest
    /\ ref_row = PyNone
    /\ shelter_row = PyNone
    /\ beds_by_shelter = <<>>
    /\ exact_result = NotCalled
    /\ debug_result = NotCalled
    /\ referrals_df = <<>>
    /\ shelters_df = <<>>
    /\ matches_df = NotBuilt
    /\ CoerceIdle /\ MainIdle /\ HandlerIdle

\* a call of get_latest_beds_by_shelter on the sheet
CallGetLatestBedsByShelter ==
    /\ latest_result = NoLatest
    /\ latest_result' = get_latest_beds_by_shelter(raw_rows)
    /\ UNCHANGED <<ref_row, shelter_row, beds_by_shelter, exact_result, debug_result,
                   referrals_df, shelters_df, matches_df, raw_rows>>
    /\ UNCHANGED <<coerceVars, mainVars, handlerVars>>

NextBeds == CallGetLatestBedsByShelter

SpecBeds == InitBeds /\ [][NextBeds]_vars

(* ---------- the coercion helpers on one value ---------- *)

InitCoerce ==
    /\ val \in CellValues
    /\ split_tags_result = NotCoerced
    /\ to_int_result = NotCoerced
    /\ ref_row = PyNone
    /\ shelter_row = PyNone
    /\ beds_by_shelter = <<>>
    /\ exact_result = NotCalled
    /\ debug_result = NotCalled
    /\ referrals_df = <<>>
    /\ shelters_df = <<>>
    /\ matches_df = NotBuilt
    /\ BedsIdle /\ MainIdle /\ HandlerIdle

\* a call of _split_tags on the value
CallSplitTags ==
    /\ split_tags_result = NotCoerced
    /\ split_tags_result' = [kind |-> "return", value |-> PyNone, list |-> _split_tags(val)]
    /\ UNCHANGED <<ref_row, shelter_row, beds_by_shelter, exact_result, debug_result,
                   referrals_df, shelters_df, matches_df, val, to_int_result>>
    /\ UNCHANGED <<bedVars, mainVars, handlerVars>>

\* a call of _to_int_or_none on the value
CallToIntOrNone ==
    /\ to_int_result = NotCoerced
    /\ to_int_result' =
          LET got == _to_int_or_none(val)
          IN IF got.t = "raise"
             THEN [kind |-> "raise", value |-> got, list |-> <<>>]
             ELSE [kind |-> "return", value |-> got, list |-> <<>>]
    /\ UNCHANGED <<ref_row, shelter_row, beds_by_shelter, exact_result, debug_result,
                   referrals_df, shelters_df, matches_df, val, split_tags_result>>
    /\ UNCHANGED <<bedVars, mainVars, handlerVars>>

NextCoerce == CallSplitTags \/ CallToIntOrNone

SpecCoerce == InitCoerce /\ [][NextCoerce]_vars

(* ---------- the shelter sheet normalized, then matched ---------- *)

InitNormalize ==
    /\ shelter_records \in SeqsUpTo(RawShelterPool, MaxShelters)
    /\ referrals_df \in SeqsUpTo(PipelineRefPool, MaxReferrals)
    /\ beds_by_shelter = BedsForAll
    /\ normalized = "not_called"
    /\ shelters_df = <<>>
    /\ matches_df = NotBuilt
    /\ referral_records = <<>>
    /\ stdout = <<>>
    /\ print_debug_result = NotPrinted
    /\ ref_row = PyNone
    /\ shelter_row = PyNone
    /\ exact_result = NotCalled
    /\ debug_result = NotCalled
    /\ BedsIdle /\ CoerceIdle /\ HandlerIdle

\* a call of normalize_shelters_df on the shelter sheet
CallNormalizeSheltersDf ==
    /\ normalized = "not_called"
    /\ normalized' = normalize_shelters_df(shelter_records).kind
    /\ shelters_df' = normalize_shelters_df(shelter_records).rows
    /\ UNCHANGED <<ref_row, shelter_row, beds_by_shelter, exact_result, debug_result,
                   referrals_df, matches_df, referral_records, shelter_records, stdout,
                   print_debug_result>>
    /\ UNCHANGED <<bedVars, coerceVars, handlerVars>>

\* a call of build_matches on the normalized shelters
CallBuildMatchesNormalized ==
    /\ normalized = "return"
    /\ CallBuildMatches

NextNormalize == CallNormalizeSheltersDf \/ CallBuildMatchesNormalized

SpecNormalize == InitNormalize /\ [][NextNormalize]_vars

(* ---------- the match builder followed by the debug helper ---------- *)

InitDebug ==
    /\ referrals_df \in SeqsUpTo(DebugRefPool, MaxReferrals)
    /\ shelters_df \in SeqsUpTo(DebugShelterPool, MaxShelters)
    /\ beds_by_shelter \in
          {<<>>, BedsForAll,
           [k \in {V_S2} |-> [date |-> PyDate(20251119), beds_available |-> PyInt(1)]]}
    /\ matches_df = NotBuilt
    /\ stdout = <<>>
    /\ print_debug_result = NotPrinted
    /\ normalized = "not_called"
    /\ referral_records = <<>>
    /\ shelter_records = <<>>
    /\ ref_row = PyNone
    /\ shelter_row = PyNone
    /\ exact_result = NotCalled
    /\ debug_result = NotCalled
    /\ BedsIdle /\ CoerceIdle /\ HandlerIdle

\* the call of print_debug_no_matches that main makes when matches_df is empty
CallPrintDebugNoMatches ==
    /\ matches_df.kind = "return"
    /\ matches_df.rows = <<>>
    /\ print_debug_result = NotPrinted
    /\ \E done \in {print_debug_no_matches(referrals_df, shelters_df, beds_by_shelter)} :
          /\ stdout' = done.stdout
          /\ print_debug_result' = [kind |-> IF done.exc = "" THEN "return" ELSE "raise",
                                    exc |-> done.exc]
    /\ UNCHANGED <<ref_row, shelter_row, beds_by_shelter, exact_result, debug_result,
                   referrals_df, shelters_df, matches_df, referral_records,
                   shelter_records, normalized>>
    /\ UNCHANGED <<bedVars, coerceVars, handlerVars>>

NextDebug == CallBuildMatches \/ CallPrintDebugNoMatches

SpecDebug == InitDebug /\ [][NextDebug]_vars

(* ---------- the Lambda entry point on one event ---------- *)

InitHandler ==
    /\ event \in Events
    /\ io \in IoOutcomes
    /\ referral_records \in ReferralSheets
    /\ shelter_records \in ShelterSheets
    /\ raw_rows \in BedSheets
    /\ response = NoResponse
    /\ latest_result = NoLatest
    /\ normalized = "not_called"
    /\ stdout = <<>>
    /\ print_debug_result = NotPrinted
    /\ ref_row = PyNone
    /\ shelter_row = PyNone
    /\ beds_by_shelter = <<>>
    /\ exact_result = NotCalled
    /\ debug_result = NotCalled
    /\ referrals_df = <<>>
    /\ shelters_df = <<>>
    /\ matches_df = NotBuilt
    /\ CoerceIdle

\* an invocation of lambda_handler
CallLambdaHandler ==
    /\ response = NoResponse
    /\ response' = lambda_handler(event, io, referral_records, shelter_records, raw_rows)
    /\ UNCHANGED <<ref_row, shelter_row, beds_by_shelter, exact_result, debug_result,
                   referrals_df, shelters_df, matches_df, event, io>>
    /\ UNCHANGED <<bedVars, coerceVars, mainVars>>

NextHandler == CallLambdaHandler

SpecHandler == InitHandler /\ [][NextHandler]_vars

(* ---------- properties of the rule engine (Spec) ---------- *)

ExactCalled == exact_result.kind # "not_called"

DebugCalled == debug_result.kind # "not_called"

ExactFalse == exact_result.kind = "return" /\ exact_result.ok = FALSE

\* the shelter of the pair has no shelter id
NoShelterId == shelter_row.shelter_uid \in {PyNone, PyStr(<<>>)}

\* the bed lookup has no entry for the shelter of the pair
NoBedEntry == shelter_row.shelter_uid.s \notin DOMAIN beds_by_shelter

\* the entry of the shelter has no bed count, or a count of zero or less
NoBedsInEntry ==
    /\ ~NoBedEntry
    /\ LET info == beds_by_shelter[shelter_row.shelter_uid.s]
       IN \/ "beds_available" \notin DOMAIN info
          \/ info.beds_available = PyNone
          \/ info.beds_available.t = "int" /\ info.beds_available.n <= 0

\* C1: debug_exact_match returns a verdict whenever is_exact_match does, and the two
\* agree on pass/fail.
C1_DebugAgrees ==
    (exact_result.kind = "return" /\ DebugCalled)
        => (debug_result.kind = "return" /\ debug_result.ok = exact_result.ok)

\* C2: is_exact_match returns False when the shelter has no id, no entry in the bed
\* lookup, or an entry whose bed count is missing, zero or negative, whatever the
\* other fields are.
C2_NoBedsNoMatch ==
    (ExactCalled /\ (NoShelterId \/ NoBedEntry \/ NoBedsInEntry)) => ExactFalse

\* is_exact_match has returned on a shelter with zero beds that every later step accepts
C2_Witness ==
    /\ ExactFalse
    /\ shelter_row.shelter_uid = PyStr(V_S1)
    /\ ~NoBedEntry
    /\ beds_by_shelter[V_S1] = [date |-> PyDate(1), beds_available |-> PyInt(0)]
    /\ ref_row.ref_exclude_spa = PyNone
    /\ ref_row.ref_has_any_animal = PyBool(FALSE)
    /\ ref_row.ref_vehicle = PyNone
    /\ shelter_row.shelter_programs = PyNone
    /\ ref_row.ref_age = PyNone

\* the referral carries a non-empty excluded-SPA set
HasExcludedSpa == ref_row.ref_exclude_spa \in {PyStr(V_4), PyStr(V_4_5)}

\* the SPA code of the shelter is a member of the excluded set of the referral
SpaIsExcluded ==
    \/ ref_row.ref_exclude_spa = PyStr(V_4) /\ shelter_row.shelter_spa = PyInt(4)
    \/ ref_row.ref_exclude_spa = PyStr(V_4_5) /\ shelter_row.shelter_spa \in {PyInt(4), PyInt(5)}

\* C3: with a non-empty excluded-SPA set, is_exact_match fails the pair when the
\* shelter's SPA is unknown or excluded, and the SPA step does not reject a shelter
\* whose known SPA is not excluded.
C3_ExcludedSpaRejected ==
    (ExactCalled /\ HasExcludedSpa) =>
        /\ (shelter_row.shelter_spa = PyNone \/ SpaIsExcluded) => ExactFalse
        /\ (shelter_row.shelter_spa # PyNone /\ ~SpaIsExcluded) => exact_result.reason # "spa"

\* the normalized column shelter_age of the shelter is exactly the single tag given
ShelterAgeIs(tag) == shelter_row.shelter_age = PyStr(tag)

AgeKnown == ref_row.ref_age.t = "int"

\* the shelter row has the shape normalize_shelters_df gives it: no key age_group
NormalizedShelter == shelter_row.age_group = PyNone

\* C4: for a referral of known age and a normalized shelter, a shelter with shelter_age
\* exactly ["seniors"] is rejected below 55 and passes the age step from 55 on, a
\* shelter with shelter_age exactly ["tay_teen"] is rejected above 24, and no other
\* shelter_age is rejected by the age step.
C4_AgeRuleOnShelterAge ==
    (ExactCalled /\ AgeKnown /\ NormalizedShelter) =>
        /\ (ShelterAgeIs(K_seniors) /\ ref_row.ref_age.n < 55) => ExactFalse
        /\ (ShelterAgeIs(K_seniors) /\ ref_row.ref_age.n >= 55) => exact_result.reason # "age"
        /\ (ShelterAgeIs(K_tay_teen) /\ ref_row.ref_age.n > 24) => ExactFalse
        /\ (~ShelterAgeIs(K_seniors) /\ ~ShelterAgeIs(K_tay_teen)) => exact_result.reason # "age"

\* the preference of the referral, resolved by hand over the input values: the bed
\* preference, or the gender identity when the preference is blank or "No Preference"
ResolvedPref ==
    IF ref_row.ref_gender_bed_pref \in {PyNone, PyStr(V_No_Preference)}
    THEN ref_row.ref_gender_identity
    ELSE ref_row.ref_gender_bed_pref

PrefIsFemale == ResolvedPref \in {PyStr(V_Female), PyStr(V_Woman), PyStr(V_Girl)}

PrefIsMale == ResolvedPref \in {PyStr(V_Male), PyStr(V_Man)}

\* the age tags of the shelter, under either key, are exclusively TAY or seniors
AgeTagsExclusive ==
    /\ shelter_row.shelter_age = shelter_row.age_group
    /\ shelter_row.shelter_age \in {PyStr(K_seniors), PyStr(K_tay_teen)}

\* the shelter has no age tags under either key: its age tags are all
AgeTagsBroad == shelter_row.shelter_age = PyNone /\ shelter_row.age_group = PyNone

\* is_exact_match got as far as the gender step
ReachedGender == ExactCalled /\ exact_result.reason \notin {"beds", "spa", "pets", "vehicle"}

\* C5: when the shelter has no age tags (so not exclusively TAY or seniors), a female
\* preference passes the gender step iff the gender tags (empty as all) hold single_women, single_moms,
\* all or a family tag, and a male preference iff they hold single_men, all or a family
\* tag; when they are exclusively TAY or seniors the gender step never fails.
C5_GenderRule ==
    ReachedGender =>
        /\ (AgeTagsBroad /\ PrefIsFemale) =>
              (exact_result.reason # "gender"
                  <=> shelter_row.shelter_gender \in
                        {PyNone, PyStr(K_single_women), PyStr(K_single_moms), PyStr(K_families)})
        /\ (AgeTagsBroad /\ PrefIsMale) =>
              (exact_result.reason # "gender"
                  <=> shelter_row.shelter_gender \in
                        {PyNone, PyStr(K_single_men), PyStr(K_single_moms), PyStr(K_families)})
        /\ AgeTagsExclusive => exact_result.reason # "gender"

\* the referral has a vehicle
HasVehicle == ref_row.ref_vehicle = PyStr(V_Yes)

\* a program tag of the shelter contains "safe_park" or "safe parking"
HasSafeParkingProgram ==
    shelter_row.shelter_programs \in {PyStr(V_Safe_Parking_Program), PyStr(V_safe_parking_lot)}

HasVehicleRegistration == shelter_row.shelter_entry_requirements = PyStr(K_vehicle_registration)

\* C6: is_exact_match rejects a referral with a vehicle unless the shelter has a
\* safe-parking program tag or the entry requirement vehicle_registration, rejects a
\* referral without a vehicle at every shelter with a safe-parking program tag, and
\* its vehicle step rejects no other pair.
C6_VehicleRule ==
    ExactCalled =>
        /\ (HasVehicle /\ ~HasSafeParkingProgram /\ ~HasVehicleRegistration) => ExactFalse
        /\ (~HasVehicle /\ HasSafeParkingProgram) => ExactFalse
        /\ exact_result.reason = "vehicle" =>
              \/ HasVehicle /\ ~HasSafeParkingProgram /\ ~HasVehicleRegistration
              \/ ~HasVehicle /\ HasSafeParkingProgram

\* a referral without a vehicle was rejected, at the vehicle step, by a shelter with
\* beds whose programs are "Safe Parking Program"
C6_Witness ==
    /\ exact_result.reason = "vehicle"
    /\ ref_row.ref_vehicle = PyNone
    /\ shelter_row.shelter_programs = PyStr(V_Safe_Parking_Program)

\* the referral has an animal
HasAnimal == ref_row.ref_has_any_animal = PyBool(TRUE)

\* the pet tags of the shelter are empty or contain no_pets_allowed
NoPetsShelter ==
    shelter_row.shelter_pets \in {PyNone, PyStr(K_no_pets_allowed), PyStr(V_Dogs_no_pets)}

\* C7: is_exact_match rejects a referral with an animal at every shelter whose pet tags
\* are empty or contain no_pets_allowed, beds or not, and its pets step never rejects a
\* referral without an animal.
C7_PetsRule ==
    ExactCalled =>
        /\ (HasAnimal /\ NoPetsShelter) => ExactFalse
        /\ ~HasAnimal => exact_result.reason # "pets"

\* a referral with an animal was rejected, at the pets step, by a shelter with a bed
\* whose pet tags are "Dogs, no_pets_allowed"
C7_Witness ==
    /\ exact_result.reason = "pets"
    /\ HasAnimal
    /\ shelter_row.shelter_pets = PyStr(V_Dogs_no_pets)
    /\ ~NoBedEntry
    /\ beds_by_shelter[V_S1].beds_available = PyInt(1)

(* ---------- properties of the match builder (SpecBuild) ---------- *)

Built == matches_df.kind # "not_called"

\* the pairs of the cross product that is_exact_match accepts
MatchingPairs ==
    {pr \in (1..Len(referrals_df)) \X (1..Len(shelters_df)) :
        is_exact_match(referrals_df[pr[1]], shelters_df[pr[2]], beds_by_shelter).ok}

\* number of the pairs in M that the nested loops meet before the pair pr
PairRank(M, pr) ==
    Cardinality({q \in M : q[1] < pr[1] \/ (q[1] = pr[1] /\ q[2] < pr[2])})

\* the row is the row of the pair pr, produced at position rank: its own fields and
\* the bed entry of its shelter
RowOfPair(row, pr, rank) ==
    LET ref == referrals_df[pr[1]]
        shelter == shelters_df[pr[2]]
        entry == beds_by_shelter[shelter.shelter_uid.s]
    IN /\ row.index = rank
       /\ row.cells["ref_row_id"] = ref.ref_row_id
       /\ row.cells["ref_has_any_animal"] = ref.ref_has_any_animal
       /\ row.cells["shelter_uid"] = shelter.shelter_uid
       /\ row.cells["shelter_name"] = shelter.shelter_name
       /\ row.cells["shelter_spa"] = shelter.shelter_spa
       /\ row.cells["beds_available"] = entry.beds_available
       /\ row.cells["beds_last_updated"] = entry.date

\* C8: build_matches returns exactly one row for each pair of the cross product that
\* is_exact_match accepts and no other row, and each row carries the beds_available
\* and date of its shelter in the bed lookup.
C8_OneRowPerMatchingPair ==
    Built =>
        LET M == MatchingPairs
        IN /\ matches_df.kind = "return"
           /\ Len(matches_df.rows) = Cardinality(M)
           /\ \A pr \in M :
                 LET rank == PairRank(M, pr)
                 IN Cardinality({k \in 1..Len(matches_df.rows) :
                                    RowOfPair(matches_df.rows[k], pr, rank)}) = 1

\* build_matches has returned rows of two referrals for one shelter that has a single
\* bed, and has left out a pair of the cross product
C8_Witness ==
    /\ Built
    /\ Len(matches_df.rows) < Len(referrals_df) * Len(shelters_df)
    /\ \E a, b \in 1..Len(matches_df.rows) :
          /\ matches_df.rows[a].cells["ref_row_id"] # matches_df.rows[b].cells["ref_row_id"]
          /\ matches_df.rows[a].cells["shelter_uid"] = matches_df.rows[b].cells["shelter_uid"]
          /\ matches_df.rows[a].cells["beds_available"] = PyInt(1)

\* the sort key of a row, and its strict order: referral id, then SPA (a missing SPA
\* after every SPA), then shelter name
SortKey(row) == <<row.cells["ref_row_id"], row.cells["shelter_spa"], row.cells["shelter_name"]>>

SpaBefore(a, b) == a.t = "int" /\ (b.t = "none" \/ a.n < b.n)

KeyBefore(x, y) ==
    \/ x[1].n < y[1].n
    \/ x[1] = y[1] /\ SpaBefore(x[2], y[2])
    \/ x[1] = y[1] /\ x[2] = y[2] /\ StrLess(x[3].s, y[3].s)

\* C9: a non-empty build_matches result is ordered by referral id, then shelter SPA,
\* then shelter name, and rows equal on the three keys keep the order in which the
\* cross product produced them.
C9_SortedAndStable ==
    (Built /\ matches_df.rows # <<>>) =>
        \A a, b \in 1..Len(matches_df.rows) :
            a < b =>
                /\ ~KeyBefore(SortKey(matches_df.rows[b]), SortKey(matches_df.rows[a]))
                /\ SortKey(matches_df.rows[a]) = SortKey(matches_df.rows[b])
                      => matches_df.rows[a].index < matches_df.rows[b].index

\* build_matches has returned rows in another order than it produced them, two of them
\* equal on the three keys
C9_Witness ==
    /\ Built
    /\ \E a, b \in 1..Len(matches_df.rows) :
          a < b /\ matches_df.rows[a].index > matches_df.rows[b].index
    /\ \E a, b \in 1..Len(matches_df.rows) :
          /\ a < b
          /\ SortKey(matches_df.rows[a]) = SortKey(matches_df.rows[b])
          /\ matches_df.rows[a].cells["shelter_uid"] # matches_df.rows[b].cells["shelter_uid"]

\* C10: with no referral, no shelter or no matching pair, build_matches returns, without
\* raising, an empty result with the 23 fixed columns in their stated order.
C10_EmptyKeepsSchema ==
    (Built /\ (referrals_df = <<>> \/ shelters_df = <<>> \/ MatchingPairs = {})) =>
        /\ matches_df.kind = "return"
        /\ matches_df.rows = <<>>
        /\ matches_df.columns =
              <<"ref_row_id", "ref_first_name", "ref_last_name", "ref_age",
                "ref_gender_identity", "ref_gender_bed_pref", "ref_spa", "ref_vehicle",
                "ref_has_any_animal", "ref_current_location", "ref_presenting_issues",
                "shelter_uid", "shelter_name", "shelter_spa", "shelter_cities",
                "shelter_pets", "shelter_demographics", "shelter_programs",
                "shelter_entry_requirements", "shelter_email", "shelter_phone",
                "beds_available", "beds_last_updated">>

\* build_matches has returned on an empty referral collection and two shelters
C10_Witness ==
    /\ Built
    /\ referrals_df = <<>>
    /\ Len(shelters_df) = 2

(* ---------- properties of the bed lookup (SpecBeds) ---------- *)

LatestCalled == latest_result.kind # "not_called"

\* the row of the sheet has an id and a date that is a date
CompleteRow(row) ==
    row.ShelterID # PyNone /\ row.Date \in {PyStr(V_2025_11_18), PyStr(V_2025_11_19)}

\* the shelter id, the day and the bed count of a row, read by hand off the input values
RowId(row) == IF row.ShelterID = PyStr(V_S_2) THEN <<"S","-","2">> ELSE row.ShelterID.s

RowDay(row) == IF row.Date = PyStr(V_2025_11_18) THEN 18 ELSE 19

RowBeds(row) == IF row.BedsAvailable.t = "int" THEN row.BedsAvailable.n ELSE 0

\* positions of the complete rows of the sheet that belong to the shelter uid
RowsOf(uid) == {k \in 1..Len(raw_rows) : CompleteRow(raw_rows[k]) /\ RowId(raw_rows[k]) = uid}

\* the latest day among the rows at the positions ks
MaxDay(ks) == SetMax({RowDay(raw_rows[k]) : k \in ks})

\* positions, among ks, of the rows of the latest day
RowsOfMaxDay(ks) == {k \in ks : RowDay(raw_rows[k]) = MaxDay(ks)}

\* C11: after get_latest_beds_by_shelter has gone through the sheet, the lookup has an
\* entry for each shelter id that has a row with an id and a date and for no other key,
\* the date of the entry is the latest date among those rows of the shelter, its bed
\* count is that of one of the rows of that date, and the rows without id or date
\* change nothing: the lookup is the one of the sheet without them.
C11_LatestIsMaxDate ==
    LatestCalled =>
        LET L == latest_result.value
        IN /\ latest_result.kind = "return"
           /\ DOMAIN L = {RowId(raw_rows[k]) :
                             k \in {j \in 1..Len(raw_rows) : CompleteRow(raw_rows[j])}}
           /\ \A uid \in DOMAIN L :
                 /\ L[uid].date = PyDate(20251100 + MaxDay(RowsOf(uid)))
                 /\ \E k \in RowsOfMaxDay(RowsOf(uid)) :
                       L[uid].beds_available = PyInt(RowBeds(raw_rows[k]))
           /\ L = get_latest_beds_by_shelter(SelectSeq(raw_rows, CompleteRow)).value

\* the lookup was built from a sheet where S1 has its latest row first, then a row
\* without date, then an older row with another count
C11_Witness ==
    /\ LatestCalled
    /\ Len(raw_rows) = 3
    /\ raw_rows[1] = [ShelterID |-> PyStr(V_S1), BedsAvailable |-> PyInt(0),
                      Date |-> PyStr(V_2025_11_19)]
    /\ raw_rows[2].Date = PyNone
    /\ raw_rows[3] = [ShelterID |-> PyStr(V_S1), BedsAvailable |-> PyInt(1),
                      Date |-> PyStr(V_2025_11_18)]
    /\ latest_result.value[V_S1].beds_available = PyInt(0)

\* C16 as stated: when several rows of one shelter share its latest date, the entry
\* kept in the lookup is the last of them in sheet order.
C16_LastOfTiesWins ==
    LatestCalled =>
        \A uid \in DOMAIN latest_result.value :
            LET ties == RowsOfMaxDay(RowsOf(uid))
            IN Cardinality(ties) > 1 =>
                  latest_result.value[uid].beds_available
                      = PyInt(RowBeds(raw_rows[SetMax(ties)]))

\* C16 amended: when several rows of one shelter share its latest date, the entry kept
\* in the lookup is the first of them in sheet order.
C16_FirstOfTiesWins ==
    LatestCalled =>
        \A uid \in DOMAIN latest_result.value :
            LET ties == RowsOfMaxDay(RowsOf(uid))
            IN Cardinality(ties) > 1 =>
                  latest_result.value[uid].beds_available
                      = PyInt(RowBeds(raw_rows[SetMin(ties)]))

\* the lookup was built from a sheet where two rows of S1 share the latest date and
\* differ in their count, and it holds the count of the first
C16_Witness ==
    /\ LatestCalled
    /\ \E a, b \in RowsOfMaxDay(RowsOf(V_S1)) :
          /\ a < b
          /\ RowBeds(raw_rows[a]) # RowBeds(raw_rows[b])
          /\ latest_result.value[V_S1].beds_available = PyInt(RowBeds(raw_rows[a]))

(* ---------- properties of the coercion helpers (SpecCoerce) ---------- *)

SplitCalled == split_tags_result.kind # "not_called"

ToIntCalled == to_int_result.kind # "not_called"

\* the comma-separated pieces of a str, each lower-cased and trimmed, without the
\* empty ones and without those equal to nan or none
KeptPieces(chars) ==
    LET pieces == SplitComma(chars)
        cleaned == [k \in 1..Len(pieces) |-> Lower(Strip(pieces[k]))]
    IN SelectSeq(cleaned, LAMBDA piece : piece \notin {<<>>, <<"n","a","n">>, <<"n","o","n","e">>})

\* C12: _split_tags returns the comma-separated pieces of a str lower-cased and
\* trimmed, in order, without the empty pieces and without the pieces equal to nan or
\* none ("A, b,,nan" gives [a, b]), and the empty list on a missing value.
C12_SplitTagsDropsNanNone ==
    SplitCalled =>
        /\ val.t = "str" => split_tags_result.list = KeptPieces(val.s)
        /\ val = PyStr(V_A_b_nan) => split_tags_result.list = <<<<"a">>, <<"b">>>>
        /\ val \in {PyNone, PyNaN} => split_tags_result.list = <<>>

\* the values that convert to an int, with the int, read by hand off the input values
IntOf ==
    [v \in {PyInt(5), PyInt(-3), PyBool(TRUE), PyFloat(50), PyFloat(57), PyFloat(-57),
            PyStr(V_5_0), PyStr(V_sp_7_sp), PyStr(V_minus_3), PyStr(V_5_7)} |->
        CASE v \in {PyInt(5), PyFloat(50), PyFloat(57), PyStr(V_5_0), PyStr(V_5_7)} -> 5
          [] v \in {PyInt(-3), PyStr(V_minus_3)} -> -3
          [] v = PyFloat(-57) -> -5
          [] v = PyStr(V_sp_7_sp) -> 7
          [] OTHER -> 1]

\* C13: _to_int_or_none never raises: it returns the int of a value that converts
\* (5.0 and "5.0" give 5) and None for every other value, "abc", "inf" and an infinite
\* float included.
C13_ToIntNeverRaises ==
    ToIntCalled =>
        /\ to_int_result.kind = "return"
        /\ val \in DOMAIN IntOf => to_int_result.value = PyInt(IntOf[val])
        /\ val \notin DOMAIN IntOf => to_int_result.value = PyNone

(* ---------- properties of the normalized shelters (SpecNormalize) ---------- *)

\* the keys under which is_exact_match reads a shelter, each with the column of the
\* shelter sheet that holds the field
SourceColumn ==
    [shelter_uid |-> "shelter_id", shelter_spa |-> "spa", age_group |-> "age_group",
     shelter_gender |-> "gender", shelter_pets |-> "pets",
     shelter_programs |-> "shelter_programs",
     shelter_entry_requirements |-> "entry_requirements"]

\* the source value of the field read under a key, the SPA as its int, read by hand
\* off the input values
SourceValue(raw, key) ==
    IF key # "shelter_spa" THEN raw[SourceColumn[key]]
    ELSE IF raw.spa = PyFloat(40) THEN PyInt(4)
    ELSE IF raw.spa \in {PyFloat(50), PyStr(V_5_0)} THEN PyInt(5)
    ELSE PyNone

\* build_matches returned a row for the referral and the sheet row
HasRowFor(ref, raw) ==
    \E k \in 1..Len(matches_df.rows) :
        LET cells == matches_df.rows[k].cells
        IN /\ cells["ref_row_id"] = ref.ref_row_id
           /\ cells["shelter_uid"] = raw.shelter_id
           /\ cells["shelter_name"] = raw.shelter_name
           /\ cells["shelter_spa"] = SourceValue(raw, "shelter_spa")

\* C17: a shelter that went through normalize_shelters_df and build_matches has every
\* field is_exact_match reads under the key it is read by, with its source value, and
\* is judged on it: a source shelter with a safe-parking program has no row for a
\* referral without vehicle, and a seniors-only source shelter none for a referral
\* aged 40.
C17_JudgedOnSourceValues ==
    (normalized = "return" /\ Built) =>
        \A i \in 1..Len(shelter_records) :
            LET raw == shelter_records[i]
            IN /\ \A key \in DOMAIN SourceColumn :
                     Get(shelters_df[i], key) = SourceValue(raw, key)
               /\ \A j \in 1..Len(referrals_df) :
                     LET ref == referrals_df[j]
                     IN /\ (raw.shelter_programs = PyStr(V_Safe_Parking_Program)
                              /\ ref.ref_vehicle = PyNone) => ~HasRowFor(ref, raw)
                        /\ (raw.age_group = PyStr(K_seniors) /\ ref.ref_age = PyInt(40))
                              => ~HasRowFor(ref, raw)

(* ---------- properties of the debug helper (SpecDebug) ---------- *)

PrintCalled == print_debug_result.kind # "not_called"

\* the lines of the given kind, in the order they were printed
LinesOfKind(kind) == SelectSeq(stdout, LAMBDA line : line.kind = kind)

\* C14: when build_matches has returned no row, print_debug_no_matches runs to its
\* end and has printed, for the referrals in input order, one header each, and after
\* the header of a referral one verdict, MATCH or NO with a reason, for every shelter
\* in input order: one verdict for each pair of the cross product; the match result is
\* still the empty one.
C14_DebugPrintsEveryPair ==
    PrintCalled =>
        LET headers == LinesOfKind("header")
            verdicts == LinesOfKind("verdict")
            S == Len(shelters_df)
        IN /\ print_debug_result.kind = "return"
           /\ Len(headers) = Len(referrals_df)
           /\ \A j \in 1..Len(headers) : headers[j].ref_id = referrals_df[j].ref_row_id
           /\ Len(verdicts) = Len(referrals_df) * S
           /\ \A k \in 1..Len(verdicts) :
                 /\ verdicts[k].ref_id = referrals_df[((k - 1) \div S) + 1].ref_row_id
                 /\ verdicts[k].uid = shelters_df[((k - 1) % S) + 1].shelter_uid
                 /\ verdicts[k].name = shelters_df[((k - 1) % S) + 1].shelter_name
                 /\ verdicts[k].status \in {"MATCH", "NO"}
                 /\ verdicts[k].status = "NO" => verdicts[k].reason # ""
           /\ matches_df = [kind |-> "return", columns |-> MATCH_COLUMNS, rows |-> <<>>]

(* ---------- properties of the Lambda entry point (SpecHandler) ---------- *)

HandlerCalled == response.kind # "not_called"

\* the event carries no challenge: the invocation is a normal one
NormalInvocation ==
    event # [headers |-> [h \in {V_Smartsheet_Hook_Challenge} |-> PyStr(V_abc)]]

\* a collaborator fails when called
SomeIoFails == \E c \in DOMAIN io : io[c] # "ok"

\* C15: in a normal invocation of lambda_handler where a collaborator fails (a fetch of
\* referrals, shelters or beds, the Excel writer, or the sending of the mail), the
\* response is a 500 with the error message, never a 200.
C15_IoFailureIs500 ==
    (HandlerCalled /\ NormalInvocation /\ SomeIoFails) =>
        /\ response.statusCode = 500
        /\ response.body # ""

====
